---- MODULE Spec2Model ----
(***************************************************************************)
(* Model of the Levenshtein edit-distance engine                           *)
(* (spelling_correction/Levenshtein.py, class levenshtein) and of the      *)
(* vocabulary-based spelling corrector built on it                         *)
(* (spelling_correction/SpellingCorrector.py, class SpellCorrector).       *)
(*                                                                         *)
(* Strings are sequences of characters.  Python's 0-based s[k-1] is the     *)
(* 1-based s[k] here; matrices keep the code's indices 0..M and 0..N.      *)
(***************************************************************************)
EXTENDS Integers, Sequences, FiniteSets, TLC

VARIABLES
    pc,          \* engine: "new" | "ready" | "walk" ("idle" when only a corrector runs)
    args,        \* engine: the constructor's arguments
    lev,         \* engine: the levenshtein object's fields (Nothing before __init__)
    i,           \* operations_history: local i
    j,           \* operations_history: local j
    operations,  \* operations_history: local list, in walk (reverse) order
    history,     \* <<the value the last operations_history() call returned>>
    distance,    \* <<the value the last get_edit_distance() call returned>>
    cpc,         \* corrector: "new" | "constructed" ("idle" when only an engine runs)
    cargs,       \* corrector: the constructor's arguments
    sc,          \* corrector: the SpellCorrector object's fields
    corrected    \* <<the value the last retrive_corrected() call returned>>

vars == <<pc, args, lev, i, j, operations, history,
          distance, cpc, cargs, sc, corrected>>
levVars == <<pc, args, lev, i, j, operations, history, distance>>
scVars == <<cpc, cargs, sc, corrected>>

\* no object constructed yet, no call returned yet
Nothing == <<>>

\* Python's None: a value that is no string, no list of words and no
\* (index, character) pair
None == << <<"None">> >>

---------------------------------------------------------------------------
(* Bounds and input domains *)

MaxLen == 3     \* longest source / target string of the engine
MaxDotted == 1  \* longest source / target string with a capital I with dot above
MaxCost == 2    \* largest insert / delete / replace cost
MaxTokens == 2  \* most words in a text given to the corrector
MaxVocab == 3   \* most entries of a vocabulary given to the corrector
MaxEdits == 2   \* largest n_edit given to the corrector with such a vocabulary
MaxShort == 5   \* longest shorter word of a two-word vocabulary of repeated words
MaxRepeat == 6  \* most repetitions of the shorter word in such a vocabulary

Alphabet == {"a", "B"}
Dotted == {"a", "U+0130"}
Costs == 0..MaxCost

RECURSIVE StringsOfLen(_, _)
StringsOfLen(S, n) ==
    IF n = 0 THEN {<<>>}
    ELSE {Append(s, c) : s \in StringsOfLen(S, n - 1), c \in S}

StringsUpTo(S, n) == UNION {StringsOfLen(S, k) : k \in 0..n}

\* the source and target strings given to the engine
Strings == StringsUpTo(Alphabet, MaxLen) \cup StringsUpTo(Dotted, MaxDotted)

---------------------------------------------------------------------------
(* Characters and strings: str.lower(), str.isalpha(), the order of str.  A
   character is a one-character string when it is a blank, an ASCII digit or
   an ASCII letter, and the string "U+" with its code point in hexadecimal
   otherwise: the Latin-1 characters U+00C0..U+00FF, the capital I with dot
   above U+0130 and the combining dot above U+0307. *)

\* the ASCII letters and digits, each kind by increasing code point
Upper ==
    <<"A", "B", "C", "D", "E", "F", "G", "H", "I", "J", "K", "L", "M",
      "N", "O", "P", "Q", "R", "S", "T", "U", "V", "W", "X", "Y", "Z">>
Lower ==
    <<"a", "b", "c", "d", "e", "f", "g", "h", "i", "j", "k", "l", "m",
      "n", "o", "p", "q", "r", "s", "t", "u", "v", "w", "x", "y", "z">>
Digits == <<"0", "1", "2", "3", "4", "5", "6", "7", "8", "9">>

\* U+00C0..U+00FF by increasing code point: the capitals U+00C0..U+00DE, the
\* small letters U+00DF..U+00FF, and the two signs U+00D7 and U+00F7 among them
Latin1 ==
    <<"U+00C0", "U+00C1", "U+00C2", "U+00C3", "U+00C4", "U+00C5",
      "U+00C6", "U+00C7", "U+00C8", "U+00C9", "U+00CA", "U+00CB",
      "U+00CC", "U+00CD", "U+00CE", "U+00CF", "U+00D0", "U+00D1",
      "U+00D2", "U+00D3", "U+00D4", "U+00D5", "U+00D6", "U+00D7",
      "U+00D8", "U+00D9", "U+00DA", "U+00DB", "U+00DC", "U+00DD",
      "U+00DE", "U+00DF", "U+00E0", "U+00E1", "U+00E2", "U+00E3",
      "U+00E4", "U+00E5", "U+00E6", "U+00E7", "U+00E8", "U+00E9",
      "U+00EA", "U+00EB", "U+00EC", "U+00ED", "U+00EE", "U+00EF",
      "U+00F0", "U+00F1", "U+00F2", "U+00F3", "U+00F4", "U+00F5",
      "U+00F6", "U+00F7", "U+00F8", "U+00F9", "U+00FA", "U+00FB",
      "U+00FC", "U+00FD", "U+00FE", "U+00FF">>

\* what separates a Latin-1 capital from its small letter, in code points and
\* in positions of Latin1; the positions of the signs U+00D7 and U+00F7
Latin1Case == [shift |-> 32, signs |-> {24, 56}]

DottedI == "U+0130"
CombiningDot == "U+0307"

SetOfChars(chars) == {chars[k] : k \in 1..Len(chars)}
UpperSet == SetOfChars(Upper)
LowerSet == SetOfChars(Lower)
DigitSet == SetOfChars(Digits)
Latin1Set == SetOfChars(Latin1)

IndexIn(c, chars) == CHOOSE k \in 1..Len(chars) : chars[k] = c

\* str.lower() of one character: a string of one character, of two for the
\* capital I with dot above (i and the combining dot)
LowerChar(c) ==
    IF c \in LowerSet THEN <<c>>
    ELSE IF c \in UpperSet THEN <<Lower[IndexIn(c, Upper)]>>
    ELSE IF c = DottedI THEN <<"i", CombiningDot>>
    ELSE IF c \in Latin1Set
              /\ IndexIn(c, Latin1) < Latin1Case.shift
              /\ IndexIn(c, Latin1) \notin Latin1Case.signs
         THEN <<Latin1[IndexIn(c, Latin1) + Latin1Case.shift]>>
    ELSE <<c>>

\* str.lower(): the lowered characters one after the other
RECURSIVE LowerStr(_)
LowerStr(s) ==
    IF Len(s) = 0 THEN <<>> ELSE LowerChar(Head(s)) \o LowerStr(Tail(s))

\* the characters str.isalpha() accepts: the letters (the combining dot is a
\* mark, U+00D7 and U+00F7 are signs)
Letters ==
    UpperSet \cup LowerSet \cup {DottedI}
        \cup {Latin1[k] : k \in (1..Len(Latin1)) \ Latin1Case.signs}

\* ord()
ord(c) ==
    CASE c = " " -> 32
      [] c \in DigitSet -> 47 + IndexIn(c, Digits)
      [] c \in UpperSet -> 64 + IndexIn(c, Upper)
      [] c \in LowerSet -> 96 + IndexIn(c, Lower)
      [] c \in Latin1Set -> 191 + IndexIn(c, Latin1)
      [] c = DottedI -> 304
      [] c = CombiningDot -> 775

\* u < v for two strings (code point by code point, a proper prefix first)
RECURSIVE StrLess(_, _)
StrLess(u, v) ==
    IF Len(v) = 0 THEN FALSE
    ELSE IF Len(u) = 0 THEN TRUE
    ELSE IF u[1] # v[1] THEN ord(u[1]) < ord(v[1])
    ELSE StrLess(Tail(u), Tail(v))

---------------------------------------------------------------------------
(* class levenshtein *)

NO_EDIT == 0
INSERT == 1
DELETE == 2
REPLACE == 3

UInt8 == 256    \* dtype=np.uint8: stored cells are kept modulo 2^8

Min3(a, b, c) ==
    IF a <= b /\ a <= c THEN a ELSE IF b <= c THEN b ELSE c

\* __init__ up to the call of build_levenshtein: fields set, matrices zeroed
NewLevenshtein(source, target, replace_cost, insert_cost, delete_cost) ==
    [ source |-> LowerStr(source),
      target |-> LowerStr(target),
      M |-> Len(source),
      N |-> Len(target),
      replace_cost |-> replace_cost,
      insert_cost |-> insert_cost,
      delete_cost |-> delete_cost,
      distance_matrix |-> [r \in 0..Len(source) |-> [c \in 0..Len(target) |-> 0]],
      backtrace_matrix |-> [r \in 0..Len(source) |-> [c \in 0..Len(target) |-> 0]] ]

\* build_levenshtein, "Matrices initialization": the i loop, then the j loop
\* (which writes cell (0,0) last)
InitBorders(self) ==
    [self EXCEPT
       !.distance_matrix =
           [r \in 0..self.M |-> [c \in 0..self.N |->
               IF r = 0 THEN c % UInt8
               ELSE IF c = 0 THEN r % UInt8
               ELSE 0]],
       !.backtrace_matrix =
           [r \in 0..self.M |-> [c \in 0..self.N |->
               IF r = 0 THEN INSERT
               ELSE IF c = 0 THEN DELETE
               ELSE 0]]]

\* FillCell with the Delete test placed before the Insert test
FillCellDeleteFirst(self, r, c) ==
    LET D == self.distance_matrix
    IN  IF self.source[r] = self.target[c]
        THEN [self EXCEPT !.distance_matrix[r][c] = D[r-1][c-1],
                          !.backtrace_matrix[r][c] = NO_EDIT]
        ELSE LET minimum == Min3(D[r][c-1], D[r-1][c], D[r-1][c-1])
             IN  IF minimum = D[r-1][c]
                 THEN [self EXCEPT
                         !.distance_matrix[r][c] = (minimum + self.delete_cost) % UInt8,
                         !.backtrace_matrix[r][c] = DELETE]
                 ELSE IF minimum = D[r][c-1]
                 THEN [self EXCEPT
                         !.distance_matrix[r][c] = (minimum + self.insert_cost) % UInt8,
                         !.backtrace_matrix[r][c] = INSERT]
                 ELSE [self EXCEPT
                         !.distance_matrix[r][c] = (minimum + self.replace_cost) % UInt8,
                         !.backtrace_matrix[r][c] = REPLACE]

\* build_levenshtein, body of the inner loop for one cell (r, c), r, c >= 1
FillCell(self, r, c) ==
    LET D == self.distance_matrix
    IN  IF self.source[r] = self.target[c]
        THEN [self EXCEPT !.distance_matrix[r][c] = D[r-1][c-1],
                          !.backtrace_matrix[r][c] = NO_EDIT]
        ELSE LET minimum == Min3(D[r][c-1], D[r-1][c], D[r-1][c-1])
             IN  IF minimum = D[r][c-1]
                 THEN [self EXCEPT
                         !.distance_matrix[r][c] = (minimum + self.insert_cost) % UInt8,
                         !.backtrace_matrix[r][c] = INSERT]
                 ELSE IF minimum = D[r-1][c]
                 THEN [self EXCEPT
                         !.distance_matrix[r][c] = (minimum + self.delete_cost) % UInt8,
                         !.backtrace_matrix[r][c] = DELETE]
                 ELSE [self EXCEPT
                         !.distance_matrix[r][c] = (minimum + self.replace_cost) % UInt8,
                         !.backtrace_matrix[r][c] = REPLACE]

RECURSIVE FillRow(_, _, _)
FillRow(self, r, c) ==
    IF c > self.N THEN self ELSE FillRow(FillCell(self, r, c), r, c + 1)

RECURSIVE FillRows(_, _)
FillRows(self, r) ==
    IF r > self.M THEN self ELSE FillRows(FillRow(self, r, 1), r + 1)

build_levenshtein(self) == FillRows(InitBorders(self), 1)

levenshtein(source, target, replace_cost, insert_cost, delete_cost) ==
    build_levenshtein(
        NewLevenshtein(source, target, replace_cost, insert_cost, delete_cost))

get_edit_distance(self) == self.distance_matrix[self.M][self.N]

\* Python's s[k] for a 0-based k that may be negative
At(s, k) == IF k >= 0 THEN s[k + 1] ELSE s[Len(s) + k + 1]

\* WalkStep whose Delete branch decrements j instead of i
WalkStepDeleteMovesJ(self, wi, wj, ops) ==
    LET current_operation == self.backtrace_matrix[wi][wj]
    IN  IF current_operation = INSERT
        THEN [i |-> wi, j |-> wj - 1,
              operations |-> Append(ops,
                 [operation |-> "inserting", char_index |-> wj,
                  source_char |-> None,
                  target_char |-> <<wj, At(self.target, wj - 1)>>])]
        ELSE IF current_operation = DELETE
        THEN [i |-> wi, j |-> wj - 1,
              operations |-> Append(ops,
                 [operation |-> "deleting", char_index |-> wi,
                  source_char |-> <<wi, At(self.source, wi - 1)>>,
                  target_char |-> None])]
        ELSE [i |-> wi - 1, j |-> wj - 1,
              operations |-> Append(ops,
                 [operation |-> IF current_operation = REPLACE
                                THEN "replacing" ELSE "no_edit",
                  char_index |-> wi,
                  source_char |-> <<wi, At(self.source, wi - 1)>>,
                  target_char |-> <<wj, At(self.target, wj - 1)>>])]

\* operations_history: one iteration of the while loop at (wi, wj)
WalkStep(self, wi, wj, ops) ==
    LET current_operation == self.backtrace_matrix[wi][wj]
    IN  IF current_operation = INSERT
        THEN [i |-> wi, j |-> wj - 1,
              operations |-> Append(ops,
                 [operation |-> "inserting", char_index |-> wj,
                  source_char |-> None,
                  target_char |-> <<wj, At(self.target, wj - 1)>>])]
        ELSE IF current_operation = DELETE
        THEN [i |-> wi - 1, j |-> wj,
              operations |-> Append(ops,
                 [operation |-> "deleting", char_index |-> wi,
                  source_char |-> <<wi, At(self.source, wi - 1)>>,
                  target_char |-> None])]
        ELSE IF current_operation = REPLACE
        THEN [i |-> wi - 1, j |-> wj - 1,
              operations |-> Append(ops,
                 [operation |-> "replacing", char_index |-> wi,
                  source_char |-> <<wi, At(self.source, wi - 1)>>,
                  target_char |-> <<wj, At(self.target, wj - 1)>>])]
        ELSE [i |-> wi - 1, j |-> wj - 1,
              operations |-> Append(ops,
                 [operation |-> "no_edit", char_index |-> wi,
                  source_char |-> <<wi, At(self.source, wi - 1)>>,
                  target_char |-> <<wj, At(self.target, wj - 1)>>])]

\* operations[::-1]
Reverse(s) == [k \in 1..Len(s) |-> s[Len(s) + 1 - k]]

---------------------------------------------------------------------------
(* Python float: IEEE-754 binary64 *)

Precision == 53   \* bits of a float's significand

\* Naturals beyond 2^31: little-endian sequences of limbs below Limb.base, with
\* no leading zero limb (<<>> is 0).
Limb == [bits |-> 15, base |-> 2^15]

RECURSIVE Trim(_)
Trim(a) == IF Len(a) > 0 /\ a[Len(a)] = 0 THEN Trim(SubSeq(a, 1, Len(a) - 1)) ELSE a

RECURSIVE BigOfInt(_)
BigOfInt(n) ==
    IF n = 0 THEN <<>> ELSE <<n % Limb.base>> \o BigOfInt(n \div Limb.base)

\* a * k for 0 <= k < Limb.base
RECURSIVE MulSmallFrom(_, _, _, _)
MulSmallFrom(a, k, idx, carry) ==
    IF idx > Len(a) THEN BigOfInt(carry)
    ELSE LET t == a[idx] * k + carry
         IN  <<t % Limb.base>> \o MulSmallFrom(a, k, idx + 1, t \div Limb.base)

MulSmall(a, k) == Trim(MulSmallFrom(a, k, 1, 0))

\* quotient and remainder of a by n, 0 < n < Limb.base
RECURSIVE DivSmallFrom(_, _, _, _)
DivSmallFrom(a, n, idx, rem) ==
    IF idx = 0 THEN [q |-> <<>>, r |-> rem]
    ELSE LET t == rem * Limb.base + a[idx]
             rest == DivSmallFrom(a, n, idx - 1, t % n)
         IN  [q |-> Append(rest.q, t \div n), r |-> rest.r]

DivSmall(a, n) ==
    LET d == DivSmallFrom(a, n, Len(a), 0) IN [q |-> Trim(d.q), r |-> d.r]

\* a + k for 0 <= k < Limb.base
RECURSIVE AddSmallFrom(_, _, _)
AddSmallFrom(a, idx, carry) ==
    IF carry = 0 THEN SubSeq(a, idx, Len(a))
    ELSE IF idx > Len(a) THEN <<carry>>
    ELSE LET t == a[idx] + carry
         IN  <<t % Limb.base>> \o AddSmallFrom(a, idx + 1, t \div Limb.base)

AddSmall(a, k) == AddSmallFrom(a, 1, k)

\* a - b for a >= b
RECURSIVE SubFrom(_, _, _, _)
SubFrom(a, b, idx, borrow) ==
    IF idx > Len(a) THEN <<>>
    ELSE LET t == a[idx] - (IF idx <= Len(b) THEN b[idx] ELSE 0) - borrow
         IN  IF t < 0 THEN <<t + Limb.base>> \o SubFrom(a, b, idx + 1, 1)
             ELSE <<t>> \o SubFrom(a, b, idx + 1, 0)

Sub(a, b) == Trim(SubFrom(a, b, 1, 0))

\* -1, 0 or 1 as a < b, a = b or a > b
RECURSIVE CmpFrom(_, _, _)
CmpFrom(a, b, idx) ==
    IF idx = 0 THEN 0
    ELSE IF a[idx] # b[idx] THEN (IF a[idx] > b[idx] THEN 1 ELSE -1)
    ELSE CmpFrom(a, b, idx - 1)

Cmp(a, b) ==
    IF Len(a) # Len(b) THEN (IF Len(a) > Len(b) THEN 1 ELSE -1)
    ELSE CmpFrom(a, b, Len(a))

RECURSIVE BitLenInt(_)
BitLenInt(n) == IF n = 0 THEN 0 ELSE 1 + BitLenInt(n \div 2)

BitLen(a) ==
    IF Len(a) = 0 THEN 0 ELSE (Len(a) - 1) * Limb.bits + BitLenInt(a[Len(a)])

ShiftLeft(a, s) ==
    IF Len(a) = 0 THEN a
    ELSE [k \in 1..(s \div Limb.bits) |-> 0] \o MulSmall(a, 2^(s % Limb.bits))

ShiftRight(a, s) ==
    IF s \div Limb.bits >= Len(a) THEN <<>>
    ELSE DivSmall(SubSeq(a, s \div Limb.bits + 1, Len(a)), 2^(s % Limb.bits)).q

BitAt(a, k) ==
    IF k \div Limb.bits >= Len(a) THEN 0
    ELSE (a[k \div Limb.bits + 1] \div 2^(k % Limb.bits)) % 2

\* a is a multiple of 2^k
LowBitsZero(a, k) ==
    /\ \A idx \in 1..Len(a) : idx <= k \div Limb.bits => a[idx] = 0
    /\ k \div Limb.bits < Len(a) => a[k \div Limb.bits + 1] % 2^(k % Limb.bits) = 0

\* A float is sign * m * 2^e with m of exactly Precision bits (0.0 has sign 0
\* and m = <<>>); no value of the corrector leaves the normal range.
FloatZero == [sign |-> 0, m |-> <<>>, e |-> 0]

\* The positive float for a * 2^e, a > 0 (a little more when sticky), rounded
\* to nearest-even, "down" or "up".
Round(a, sticky, e, mode) ==
    LET len == BitLen(a)
    IN  IF len <= Precision
        THEN [sign |-> 1, m |-> ShiftLeft(a, Precision - len), e |-> e - (Precision - len)]
        ELSE LET s == len - Precision
                 hi == ShiftRight(a, s)
                 guard == BitAt(a, s - 1) = 1
                 rest == sticky \/ ~LowBitsZero(a, s - 1)
                 up == CASE mode = "nearest" -> guard /\ (rest \/ BitAt(hi, 0) = 1)
                         [] mode = "down" -> FALSE
                         [] mode = "up" -> guard \/ rest
                 m == IF up THEN AddSmall(hi, 1) ELSE hi
             IN  IF BitLen(m) > Precision
                 THEN [sign |-> 1, m |-> ShiftRight(m, 1), e |-> e + s + 1]
                 ELSE [sign |-> 1, m |-> m, e |-> e + s]

\* float(n) for an int n, |n| < Limb.base
FloatOfInt(n) ==
    IF n = 0 THEN FloatZero
    ELSE IF n > 0 THEN Round(BigOfInt(n), FALSE, 0, "nearest")
    ELSE [Round(BigOfInt(0 - n), FALSE, 0, "nearest") EXCEPT !.sign = -1]

\* num / den for ints 0 < num, den < Limb.base: the quotient rounded to nearest
TrueDivide(num, den) ==
    LET p == Precision + 1 + BitLenInt(den)
        d == DivSmall(ShiftLeft(BigOfInt(num), p), den)
    IN  Round(d.q, d.r # 0, 0 - p, "nearest")

\* f * x for an int 0 <= f < Limb.base and a float x >= 0: the product rounded
\* to nearest
Times(f, x) ==
    IF f = 0 \/ x.sign = 0 THEN FloatZero
    ELSE Round(MulSmall(x.m, f), FALSE, x.e, "nearest")

\* p > q
FloatGreater(p, q) ==
    IF p.sign # q.sign THEN p.sign > q.sign
    ELSE IF p.sign = 0 THEN FALSE
    ELSE LET c == IF p.e # q.e THEN (IF p.e > q.e THEN 1 ELSE -1) ELSE Cmp(p.m, q.m)
         IN  IF p.sign = 1 THEN c = 1 ELSE c = -1

\* One step of the binary square root: the next two bits of A enter the
\* remainder, the root gains one bit.
ISqrtStep(A, t, s) ==
    LET r4 == AddSmall(MulSmall(s.rem, 4), 2 * BitAt(A, 2 * t - 1) + BitAt(A, 2 * t - 2))
        trial == AddSmall(MulSmall(s.res, 4), 1)
    IN  IF Cmp(r4, trial) >= 0
        THEN [res |-> AddSmall(MulSmall(s.res, 2), 1), rem |-> Sub(r4, trial)]
        ELSE [res |-> MulSmall(s.res, 2), rem |-> r4]

RECURSIVE ISqrtFrom(_, _, _)
ISqrtFrom(A, t, s) ==
    IF t = 0 THEN s
    ELSE LET s2 == ISqrtStep(A, t, s)
         IN  IF Len(s2.res) >= 0 THEN ISqrtFrom(A, t - 1, s2) ELSE s2

\* res = floor(sqrt(A)), rem = A - res^2
ISqrt(A) == ISqrtFrom(A, (BitLen(A) + 1) \div 2, [res |-> <<>>, rem |-> <<>>])

\* The two floats that enclose the square root of the float x >= 0 (equal when
\* the root is a float).
Root(x) ==
    IF x.sign = 0 THEN [x |-> x, down |-> x, up |-> x]
    ELSE LET k == IF (x.e - (Precision + 1)) % 2 = 0
                  THEN Precision + 1 ELSE Precision + 2
             r == ISqrt(ShiftLeft(x.m, k))
         IN  [x |-> x,
              down |-> Round(r.res, Len(r.rem) > 0, (x.e - k) \div 2, "down"),
              up |-> Round(r.res, Len(r.rem) > 0, (x.e - k) \div 2, "up")]

\* The roots of the floats frequency * (1 / (distance + 1)) that the bounded
\* inputs give rise to, computed once.
RootTable ==
    {Root(Times(f, TrueDivide(1, n))) :
        f \in 1..(IF MaxVocab > 3 * MaxRepeat THEN MaxVocab ELSE 3 * MaxRepeat),
        n \in 1..(3 * MaxShort)}

Roots(x) ==
    IF \E r \in RootTable : r.x = x THEN CHOOSE r \in RootTable : r.x = x ELSE Root(x)

\* x ** 0.5 for a float x >= 0.  The power is the C library's pow, whose last
\* bit is the library's: the result is one of the two floats enclosing the
\* square root, libm[x] saying which.
Power(x, libm) == IF libm[x] = "up" THEN Roots(x).up ELSE Roots(x).down

\* the C libraries there can be for the arguments X; an exact root is returned
\* by all of them
Libm(X) ==
    {f \in [X -> {"down", "up"}] :
        \A x \in X : Roots(x).down = Roots(x).up => f[x] = "down"}

---------------------------------------------------------------------------
(* class SpellCorrector *)

\* nltk's words.words(): the default word list, here a short list with a
\* capitalised entry, a repeated entry and no particular order
words == << <<"b">>, <<"a", "b">>, <<"B">>, <<"b">> >>

\* set(list)
SetOf(list) == {list[k] : k \in 1..Len(list)}

\* sorted(set of strings)
RECURSIVE Sorted(_)
Sorted(S) ==
    IF S = {} THEN <<>>
    ELSE LET least == CHOOSE u \in S : \A v \in S \ {u} : StrLess(u, v)
         IN  <<least>> \o Sorted(S \ {least})

\* nltk's word_tokenize on a text of letters, digits and blanks: the maximal
\* runs of non-blank characters, from position k on, word being the run so far
RECURSIVE TokenizeFrom(_, _, _)
TokenizeFrom(string, k, word) ==
    LET end == IF Len(word) > 0 THEN <<word>> ELSE <<>>
    IN  IF k > Len(string) THEN end
        ELSE IF string[k] = " " THEN end \o TokenizeFrom(string, k + 1, <<>>)
        ELSE TokenizeFrom(string, k + 1, Append(word, string[k]))

word_tokenize(string) == TokenizeFrom(string, 1, <<>>)

\* str.isalpha()
IsAlpha(word) == Len(word) > 0 /\ \A k \in 1..Len(word) : word[k] \in Letters

\* "word in self.vocabulary" for a list
InVocabulary(word, vocabulary) == \E k \in 1..Len(vocabulary) : vocabulary[k] = word

\* Counter(self.vocabulary)[word]
vocabulary_counter(vocabulary, word) ==
    Cardinality({k \in 1..Len(vocabulary) : vocabulary[k] = word})

\* __init__ up to the four passes: the fields, the default vocabulary
NewSpellCorrector(string, vocabulary, n_edit) ==
    [string |-> string,
     vocabulary |-> IF vocabulary = None THEN Sorted(SetOf(words)) ELSE vocabulary,
     n_edit |-> n_edit,
     misspelled_words |-> <<>>]

\* __find_misspelled__
find_misspelled(self) ==
    LET tokens == word_tokenize(self.string)
        lowered == [k \in 1..Len(tokens) |-> LowerStr(tokens[k])]
        Flagged(word) == IsAlpha(word) /\ ~InVocabulary(word, self.vocabulary)
        flagged == SelectSeq(lowered, Flagged)
    IN  [self EXCEPT
           !.string = lowered,
           !.misspelled_words =
               [k \in 1..Len(flagged) |->
                   [misspelled |-> flagged[k], candidates |-> <<>>,
                    probabilities |-> <<>>]]]

\* IsCandidate with "<" for "<="
IsCandidateStrict(misspelled, word, n_edit) ==
    get_edit_distance(levenshtein(misspelled, word, 2, 1, 1)) < n_edit

\* __find_candidates__: the test of the inner loop
IsCandidate(misspelled, word, n_edit) ==
    get_edit_distance(levenshtein(misspelled, word, 2, 1, 1)) <= n_edit

\* __find_candidates__
find_candidates(self) ==
    LET Near(entry) ==
            LET Within(word) == IsCandidate(entry.misspelled, word, self.n_edit)
            IN  [entry EXCEPT !.candidates = @ \o SelectSeq(self.vocabulary, Within)]
    IN  [self EXCEPT !.misspelled_words =
            [k \in 1..Len(self.misspelled_words) |-> Near(self.misspelled_words[k])]]

\* __compute_probabilities__: candidate_frequency * distance_term for one
\* candidate, the float that is raised to lambda_factor
Product(misspelled, candidate, vocabulary, n_edit) ==
    LET n_ed == get_edit_distance(levenshtein(misspelled, candidate, n_edit, 1, 1))
        candidate_frequency == vocabulary_counter(vocabulary, candidate)
        distance_term == TrueDivide(1, n_ed + 1)
    IN  Times(candidate_frequency, distance_term)

\* __compute_probabilities__: one candidate's probability
Probability(misspelled, candidate, vocabulary, n_edit, libm) ==
    Power(Product(misspelled, candidate, vocabulary, n_edit), libm)

\* __compute_probabilities__
compute_probabilities(self, libm) ==
    LET Scored(entry) ==
            [entry EXCEPT !.probabilities =
                [k \in 1..Len(entry.candidates) |->
                    Probability(entry.misspelled, entry.candidates[k],
                                self.vocabulary, self.n_edit, libm)]]
    IN  [self EXCEPT !.misspelled_words =
            [k \in 1..Len(self.misspelled_words) |-> Scored(self.misspelled_words[k])]]

\* the floats __compute_probabilities__ raises to lambda_factor
PowArguments(self) ==
    UNION {{Product(self.misspelled_words[e].misspelled,
                    self.misspelled_words[e].candidates[k],
                    self.vocabulary, self.n_edit) :
               k \in 1..Len(self.misspelled_words[e].candidates)} :
           e \in 1..Len(self.misspelled_words)}

\* "probability > best_probability"
Greater(p, q) == FloatGreater(p, q)

\* __best_candidate__: the loop over zip(candidates, probabilities) from k on
RECURSIVE BestFrom(_, _, _, _, _)
BestFrom(candidates, probabilities, k, best_probability, best) ==
    IF k > Len(candidates) \/ k > Len(probabilities) THEN best
    ELSE IF Greater(probabilities[k], best_probability)
         THEN BestFrom(candidates, probabilities, k + 1, probabilities[k], candidates[k])
         ELSE BestFrom(candidates, probabilities, k + 1, best_probability, best)

\* __best_candidate__ (best_probability = -1, best_candidate = "")
best_candidate(self) ==
    LET Chosen(entry) ==
            [misspelled |-> entry.misspelled,
             candidates |-> entry.candidates,
             probabilities |-> entry.probabilities,
             best_candidates |->
                BestFrom(entry.candidates, entry.probabilities, 1,
                         FloatOfInt(-1), <<>>)]
    IN  [self EXCEPT !.misspelled_words =
            [k \in 1..Len(self.misspelled_words) |-> Chosen(self.misspelled_words[k])]]

\* SpellCorrector.__init__, with the C library libm
SpellCorrector(string, vocabulary, n_edit, libm) ==
    best_candidate(compute_probabilities(find_candidates(find_misspelled(
        NewSpellCorrector(string, vocabulary, n_edit))), libm))

\* " ".join(tokens)
RECURSIVE Join(_)
Join(tokens) ==
    IF Len(tokens) = 0 THEN <<>>
    ELSE IF Len(tokens) = 1 THEN tokens[1]
    ELSE tokens[1] \o <<" ">> \o Join(Tail(tokens))

\* str.replace(old, new) for a non-empty old: every non-overlapping occurrence,
\* left to right
RECURSIVE Replace(_, _, _)
Replace(s, old, new) ==
    IF Len(s) < Len(old) THEN s
    ELSE IF SubSeq(s, 1, Len(old)) = old
         THEN new \o Replace(SubSeq(s, Len(old) + 1, Len(s)), old, new)
         ELSE <<s[1]>> \o Replace(Tail(s), old, new)

\* retrive_corrected: the loop over self.misspelled_words from k on
RECURSIVE ReplaceAll(_, _, _)
ReplaceAll(corrected_string, misspelled_words, k) ==
    IF k > Len(misspelled_words) THEN corrected_string
    ELSE ReplaceAll(Replace(corrected_string, misspelled_words[k].misspelled,
                            misspelled_words[k].best_candidates),
                    misspelled_words, k + 1)

retrive_corrected(self) == ReplaceAll(Join(self.string), self.misspelled_words, 1)

\* The texts and vocabularies given to the corrector: the vocabulary entries
\* are lowercase words, one of them with a small e with acute accent; the words
\* of a text are lowercase words, an uppercase one (B and a capital E with
\* acute accent), one with a digit, the capital I with dot above and the empty
\* word (a doubled, leading or trailing blank).
VocabularyWords == {<<"a">>, <<"a", "b">>, <<"b", "U+00E9">>}
TextWords ==
    {<<"a">>, <<"a", "b">>, <<"B", "U+00C9">>, <<"a", "1">>, <<"U+0130">>, <<>>}

Texts == {Join(ws) : ws \in StringsUpTo(TextWords, MaxTokens)}

\* n times the word w, and the word of n letters "a"
Repeated(w, n) == [k \in 1..n |-> w]

\* Two-word vocabularies whose words tie in frequency / (distance + 1) for the
\* text "a": k times the word of s letters and 3k times that of 3s letters, in
\* either order, every word within n_edit = 3s - 1.
TieInputs ==
    {[string |-> <<"a">>,
      vocabulary |-> IF first = "short"
                     THEN Repeated(Repeated("a", s), k) \o Repeated(Repeated("a", 3 * s), 3 * k)
                     ELSE Repeated(Repeated("a", 3 * s), 3 * k) \o Repeated(Repeated("a", s), k),
      n_edit |-> 3 * s - 1] :
        s \in 2..MaxShort, k \in 1..MaxRepeat, first \in {"short", "long"}}

CorrInputs ==
    [string : Texts,
     vocabulary : StringsUpTo(VocabularyWords, MaxVocab) \cup {None},
     n_edit : 1..MaxEdits]
    \cup TieInputs

---------------------------------------------------------------------------
(* Engine state machine *)

LevInit ==
    /\ pc = "new"
    /\ args \in [source : Strings,
                 target : Strings,
                 replace_cost : Costs, insert_cost : Costs, delete_cost : Costs]
    /\ lev = Nothing
    /\ i = 0
    /\ j = 0
    /\ operations = <<>>
    /\ history = Nothing
    /\ distance = Nothing

CorrIdle ==
    /\ cpc = "idle"
    /\ cargs = Nothing
    /\ sc = Nothing
    /\ corrected = Nothing

\* levenshtein.__init__
Construct ==
    /\ pc = "new"
    /\ lev' = levenshtein(args.source, args.target, args.replace_cost,
                          args.insert_cost, args.delete_cost)
    /\ pc' = "ready"
    /\ UNCHANGED <<args, i, j, operations, history, distance, scVars>>

\* levenshtein.get_edit_distance
GetEditDistance ==
    /\ pc = "ready"
    /\ distance' = <<get_edit_distance(lev)>>
    /\ UNCHANGED <<pc, args, lev, i, j, operations, history, scVars>>

\* levenshtein.operations_history: entry (operations = [], i, j = M, N)
HistoryBegin ==
    /\ pc = "ready"
    /\ operations' = <<>>
    /\ i' = lev.M
    /\ j' = lev.N
    /\ pc' = "walk"
    /\ UNCHANGED <<args, lev, history, distance, scVars>>

\* levenshtein.operations_history: one iteration of "while i > 0 or j > 0"
HistoryStep ==
    /\ pc = "walk"
    /\ i > 0 \/ j > 0
    /\ LET nxt == WalkStep(lev, i, j, operations)
       IN  /\ i' = nxt.i
           /\ j' = nxt.j
           /\ operations' = nxt.operations
    /\ UNCHANGED <<pc, args, lev, history, distance, scVars>>

\* levenshtein.operations_history: loop exit, return operations[::-1]
HistoryReturn ==
    /\ pc = "walk"
    /\ ~(i > 0 \/ j > 0)
    /\ history' = <<Reverse(operations)>>
    /\ pc' = "ready"
    /\ UNCHANGED <<args, lev, i, j, operations, distance, scVars>>

Init == LevInit /\ CorrIdle

Next ==
    \/ Construct
    \/ GetEditDistance
    \/ HistoryBegin
    \/ HistoryStep
    \/ HistoryReturn

Spec == Init /\ [][Next]_vars

---------------------------------------------------------------------------
(* Corrector state machine *)

LevIdle ==
    /\ pc = "idle"
    /\ args = Nothing
    /\ lev = Nothing
    /\ i = 0
    /\ j = 0
    /\ operations = <<>>
    /\ history = Nothing
    /\ distance = Nothing

CorrInit ==
    /\ cpc = "new"
    /\ cargs \in CorrInputs
    /\ sc = Nothing
    /\ corrected = Nothing

\* SpellCorrector.__init__: the four passes, the third with the C library's
\* pow on the floats it raises to lambda_factor
CorrConstruct ==
    /\ cpc = "new"
    /\ LET found == find_candidates(find_misspelled(
                        NewSpellCorrector(cargs.string, cargs.vocabulary, cargs.n_edit)))
       IN  \E libm \in Libm(PowArguments(found)) :
              sc' = best_candidate(compute_probabilities(found, libm))
    /\ cpc' = "constructed"
    /\ UNCHANGED <<cargs, corrected, levVars>>

\* SpellCorrector.retrive_corrected
RetriveCorrected ==
    /\ cpc = "constructed"
    /\ corrected' = <<retrive_corrected(sc)>>
    /\ UNCHANGED <<cpc, cargs, sc, levVars>>

InitCorrector == LevIdle /\ CorrInit

NextCorrector ==
    \/ CorrConstruct
    \/ RetriveCorrected

SpecCorrector == InitCorrector /\ [][NextCorrector]_vars

---------------------------------------------------------------------------
(* Reference notions used to state the properties of the engine *)

Constructed == pc # "new"

\* the inputs as the engine is documented to compare them
Src == LowerStr(args.source)
Tgt == LowerStr(args.target)

Least3(a, b, c) ==
    IF a <= b THEN (IF a <= c THEN a ELSE c) ELSE (IF b <= c THEN b ELSE c)
Max2(a, b) == IF a >= b THEN a ELSE b

\* Minimum total cost over all sequences of insertions, deletions and
\* replacements turning the first m characters of s into the first n of t
\* (keeping an equal character costs nothing).
RECURSIVE MinEditCost(_, _, _, _, _, _, _)
MinEditCost(s, t, m, n, rc, ic, dc) ==
    IF m = 0 THEN n * ic
    ELSE IF n = 0 THEN m * dc
    ELSE Least3(MinEditCost(s, t, m, n - 1, rc, ic, dc) + ic,
                MinEditCost(s, t, m - 1, n, rc, ic, dc) + dc,
                MinEditCost(s, t, m - 1, n - 1, rc, ic, dc)
                   + (IF s[m] = t[n] THEN 0 ELSE rc))

\* Applying the records, in order, to src: each record consumes the source
\* character at the cursor (all but "inserting") and emits a character (all but
\* "deleting").  The result is <<>> paired with FALSE when a record does not
\* fit the cursor.
RECURSIVE ApplyOps(_, _, _, _, _)
ApplyOps(ops, src, k, cur, out) ==
    IF k > Len(ops) THEN [ok |-> cur = Len(src), out |-> out]
    ELSE LET op == ops[k]
         IN  IF op.operation = "inserting"
             THEN ApplyOps(ops, src, k + 1, cur, Append(out, op.target_char[2]))
             ELSE IF cur >= Len(src) \/ op.source_char # <<cur + 1, src[cur + 1]>>
             THEN [ok |-> FALSE, out |-> out]
             ELSE IF op.operation = "deleting"
             THEN ApplyOps(ops, src, k + 1, cur + 1, out)
             ELSE IF op.operation = "replacing"
             THEN ApplyOps(ops, src, k + 1, cur + 1, Append(out, op.target_char[2]))
             ELSE ApplyOps(ops, src, k + 1, cur + 1, Append(out, src[cur + 1]))

SourceIndices(ops) ==
    LET Consumes(op) == op.operation # "inserting"
        used == SelectSeq(ops, Consumes)
    IN  [k \in 1..Len(used) |-> used[k].source_char[1]]

TargetIndices(ops) ==
    LET Emits(op) == op.operation # "deleting"
        used == SelectSeq(ops, Emits)
    IN  [k \in 1..Len(used) |-> used[k].target_char[1]]

OpCost(self, op) ==
    CASE op.operation = "inserting" -> self.insert_cost
      [] op.operation = "deleting" -> self.delete_cost
      [] op.operation = "replacing" -> self.replace_cost
      [] OTHER -> 0

RECURSIVE SumCost(_, _, _)
SumCost(self, ops, k) ==
    IF k > Len(ops) THEN 0 ELSE OpCost(self, ops[k]) + SumCost(self, ops, k + 1)

---------------------------------------------------------------------------
(* Properties of the engine *)

\* C1: get_edit_distance() returns the minimum total cost of the insertions,
\* deletions and replacements turning the lowercased source into the
\* lowercased target, and every cell D[i][j] is that minimum for the prefixes
\* of lengths i and j.
C1_DistanceIsMinimumCost ==
    /\ Constructed =>
         \A r \in 0..lev.M : \A c \in 0..lev.N :
            lev.distance_matrix[r][c] =
               MinEditCost(Src, Tgt, r, c, args.replace_cost,
                           args.insert_cost, args.delete_cost)
    /\ distance # Nothing =>
         distance[1] = MinEditCost(Src, Tgt, Len(Src), Len(Tgt), args.replace_cost,
                                   args.insert_cost, args.delete_cost)

\* C2: the border cells are D[0][j] = j * insertCost and D[i][0] = i * deleteCost,
\* so the distance from "" to t is len(t) * insertCost and the distance from s
\* to "" is len(s) * deleteCost.
C2_BorderCells ==
    /\ Constructed =>
         /\ \A c \in 0..lev.N : lev.distance_matrix[0][c] = c * args.insert_cost
         /\ \A r \in 0..lev.M : lev.distance_matrix[r][0] = r * args.delete_cost
    /\ (distance # Nothing /\ Len(args.source) = 0) =>
         distance[1] = Len(args.target) * args.insert_cost
    /\ (distance # Nothing /\ Len(args.target) = 0) =>
         distance[1] = Len(args.source) * args.delete_cost

\* C3: applying the records operations_history() returned, in order, to the
\* lowercased source rebuilds the lowercased target; the source indices of the
\* records run through 1..M and the target indices through 1..N, increasing.
C3_HistoryRoundTrip ==
    history # Nothing =>
        /\ ApplyOps(history[1], Src, 1, 0, <<>>) = [ok |-> TRUE, out |-> Tgt]
        /\ SourceIndices(history[1]) = [k \in 1..Len(Src) |-> k]
        /\ TargetIndices(history[1]) = [k \in 1..Len(Tgt) |-> k]

\* C8: at an interior cell with different characters the tag is Insert when the
\* left neighbour is the minimum of the three neighbours, Delete when the upper
\* one is and the left one is not, Replace only when the diagonal one is
\* strictly below both; with equal characters the tag is NoEdit and the cell
\* copies the diagonal neighbour, whatever the costs.
C8_TieBreak ==
    Constructed =>
      LET D == lev.distance_matrix
          B == lev.backtrace_matrix
          s == lev.source
          t == lev.target
      IN  \A r \in 1..lev.M : \A c \in 1..lev.N :
            LET left == D[r][c-1]
                up == D[r-1][c]
                diag == D[r-1][c-1]
            IN  IF s[r] = t[c]
                THEN B[r][c] = NO_EDIT /\ D[r][c] = diag
                ELSE /\ (left <= up /\ left <= diag) => B[r][c] = INSERT
                     /\ (up <= diag /\ up < left) => B[r][c] = DELETE
                     /\ B[r][c] = REPLACE <=> (diag < left /\ diag < up)
                     /\ B[r][c] \in {INSERT, DELETE, REPLACE}

\* C8 witness: one matrix with a two-way tie won by Insert, a tie of the upper
\* and diagonal neighbours won by Delete, a Replace and a NoEdit cell.
C8_Witness ==
    /\ Constructed
    /\ LET D == lev.distance_matrix
           B == lev.backtrace_matrix
           Cells == (1..lev.M) \X (1..lev.N)
       IN  /\ \E x \in Cells :
                /\ lev.source[x[1]] # lev.target[x[2]]
                /\ D[x[1]][x[2]-1] = D[x[1]-1][x[2]]
                /\ D[x[1]][x[2]-1] <= D[x[1]-1][x[2]-1]
                /\ B[x[1]][x[2]] = INSERT
           /\ \E x \in Cells :
                /\ lev.source[x[1]] # lev.target[x[2]]
                /\ D[x[1]-1][x[2]] = D[x[1]-1][x[2]-1]
                /\ D[x[1]][x[2]-1] > D[x[1]-1][x[2]]
                /\ B[x[1]][x[2]] = DELETE
           /\ \E x \in Cells : B[x[1]][x[2]] = REPLACE
           /\ \E x \in Cells : B[x[1]][x[2]] = NO_EDIT

\* C9: the backtrace walk stays inside the matrices (an Insert step is taken
\* only with j > 0, the other steps only with the indices they decrement > 0)
\* and adds one record per step while i + j shrinks, so that it ends at (0, 0)
\* with at least max(M, N) and at most M + N records; a later call is about to
\* return, and has returned, the sequence the call before it returned.
C9_WalkTerminates ==
    /\ pc = "walk" =>
         /\ i \in 0..lev.M /\ j \in 0..lev.N
         /\ Len(operations) <= (lev.M - i) + (lev.N - j)
         /\ Len(operations) >= Max2(lev.M - i, lev.N - j)
         /\ (i > 0 \/ j > 0) =>
              LET tag == lev.backtrace_matrix[i][j]
              IN  /\ tag = INSERT => j > 0
                  /\ tag = DELETE => i > 0
                  /\ tag \in {REPLACE, NO_EDIT} => (i > 0 /\ j > 0)
         /\ (history # Nothing /\ ~(i > 0 \/ j > 0)) =>
              [k \in 1..Len(history[1]) |->
                  history[1][Len(history[1]) + 1 - k]] = operations
    /\ (pc = "ready" /\ history # Nothing) =>
         /\ i = 0 /\ j = 0
         /\ Len(history[1]) = Len(operations)
         /\ Len(history[1]) <= lev.M + lev.N
         /\ Len(history[1]) >= Max2(lev.M, lev.N)

\* C9 witness: for non-empty strings, the walk of a second call has reached
\* (0, 0) with more than max(M, N) records, the last of them taken on the
\* border of the matrices.
C9_Witness ==
    /\ pc = "walk"
    /\ history # Nothing
    /\ i = 0 /\ j = 0
    /\ lev.M > 0 /\ lev.N > 0
    /\ Len(operations) > Max2(lev.M, lev.N)
    /\ operations[Len(operations)].operation \in {"inserting", "deleting"}

\* C10: at every cell but (0, 0), border cells included, the tag names the
\* transition that produced the cell's distance, so that the costs of the
\* records of operations_history() add up to get_edit_distance().
C10_TagNamesTransition ==
    /\ Constructed =>
         \A r \in 0..lev.M : \A c \in 0..lev.N :
           LET D == lev.distance_matrix
               tag == lev.backtrace_matrix[r][c]
           IN  (r > 0 \/ c > 0) =>
                 /\ tag = INSERT => (c > 0 /\ D[r][c] = D[r][c-1] + lev.insert_cost)
                 /\ tag = DELETE => (r > 0 /\ D[r][c] = D[r-1][c] + lev.delete_cost)
                 /\ tag = REPLACE =>
                      (r > 0 /\ c > 0 /\ D[r][c] = D[r-1][c-1] + lev.replace_cost)
                 /\ tag = NO_EDIT => (r > 0 /\ c > 0 /\ D[r][c] = D[r-1][c-1])
    /\ history # Nothing => SumCost(lev, history[1], 1) = get_edit_distance(lev)

---------------------------------------------------------------------------
(* Reference notions used to state the properties of the corrector *)

CorrConstructed == cpc = "constructed"

\* the vocabulary in use, the tokens of the text as the corrector keeps them,
\* and the ones it must flag
Vocabulary == sc.vocabulary
Tokens ==
    LET tokens == word_tokenize(cargs.string)
    IN  [k \in 1..Len(tokens) |-> LowerStr(tokens[k])]
IsFlagged(word) == IsAlpha(word) /\ ~InVocabulary(word, Vocabulary)

\* the entry of a flagged token (entries of equal tokens are equal)
EntryOf(word) ==
    sc.misspelled_words[CHOOSE k \in 1..Len(sc.misspelled_words) :
                            sc.misspelled_words[k].misspelled = word]

\* s.split(" ")
RECURSIVE Split(_, _, _)
Split(s, k, field) ==
    IF k > Len(s) THEN <<field>>
    ELSE IF s[k] = " " THEN <<field>> \o Split(s, k + 1, <<>>)
    ELSE Split(s, k + 1, Append(field, s[k]))

\* position-by-position substitution: a flagged token with candidates becomes
\* its own best candidate, every other token stays
TokenwiseCorrected ==
    Join([k \in 1..Len(Tokens) |->
            IF IsFlagged(Tokens[k]) /\ Len(EntryOf(Tokens[k]).candidates) > 0
            THEN EntryOf(Tokens[k]).best_candidates
            ELSE Tokens[k]])

\* the textbook distance with insert cost 1, delete cost 1 and replace cost rc
TrueDistance(s, t, rc) == MinEditCost(s, t, Len(s), Len(t), rc, 1, 1)

\* n1 / d1 > n2 / d2 for positive d1, d2
FractionGreater(n1, d1, n2, d2) == n1 * d2 > n2 * d1

---------------------------------------------------------------------------
(* Properties of the corrector *)

\* C4: a flagged token without candidates is left unchanged in the corrected
\* output: it is the field at the token's position of the space-separated
\* result.
C4_NoCandidateUnchanged ==
    (CorrConstructed /\ corrected # Nothing) =>
        \A k \in 1..Len(Tokens) :
            (IsFlagged(Tokens[k]) /\ Len(EntryOf(Tokens[k]).candidates) = 0) =>
                LET fields == Split(corrected[1], 1, <<>>)
                IN  Len(fields) = Len(Tokens) /\ fields[k] = Tokens[k]

\* C5: when every flagged token has a candidate, the corrected output is the
\* space-joined lowercased token sequence with each flagged token replaced by
\* its own best candidate and every other token unchanged.
C5_TokenwiseSubstitution ==
    (CorrConstructed /\ corrected # Nothing
       /\ \A k \in 1..Len(sc.misspelled_words) :
             Len(sc.misspelled_words[k].candidates) > 0) =>
        corrected[1] = TokenwiseCorrected

\* C6: the flagged entries are the flagged tokens in text order, and each
\* entry's candidate list is the subsequence, in vocabulary order, of the
\* vocabulary words at distance (insert 1, delete 1, replace 2) at most n_edit
\* of the flagged token.
C6_CandidatesWithinThreshold ==
    CorrConstructed =>
        /\ [k \in 1..Len(sc.misspelled_words) |-> sc.misspelled_words[k].misspelled]
              = SelectSeq(Tokens, IsFlagged)
        /\ \A k \in 1..Len(sc.misspelled_words) :
              LET entry == sc.misspelled_words[k]
                  Within(word) ==
                      TrueDistance(entry.misspelled, LowerStr(word), 2) <= cargs.n_edit
              IN  entry.candidates = SelectSeq(Vocabulary, Within)

\* C6 witness: an entry whose candidates are some, not all, of the vocabulary
\* words, one of them twice.
C6_Witness ==
    /\ CorrConstructed
    /\ \E k \in 1..Len(sc.misspelled_words) :
          LET cands == sc.misspelled_words[k].candidates
          IN  /\ Len(cands) >= 2
              /\ Len(cands) < Len(Vocabulary)
              /\ cands[1] = cands[Len(cands)]

\* C7: the best candidate of an entry with candidates is the first candidate
\* whose frequency / (distance + 1), the distance taken with replace cost
\* n_edit, no other candidate of the entry exceeds; an entry without
\* candidates has an empty best candidate.
C7_BestCandidate ==
    CorrConstructed =>
        \A e \in 1..Len(sc.misspelled_words) :
            LET entry == sc.misspelled_words[e]
                cands == entry.candidates
            IN  \A freq \in {[k \in 1..Len(cands) |->
                                 vocabulary_counter(Vocabulary, cands[k])]} :
                \A den \in {[k \in 1..Len(cands) |->
                                get_edit_distance(levenshtein(entry.misspelled, cands[k],
                                                              cargs.n_edit, 1, 1)) + 1]} :
                    LET Top(k) == \A m \in 1..Len(cands) :
                                     ~FractionGreater(freq[m], den[m], freq[k], den[k])
                    IN  IF Len(cands) = 0
                        THEN entry.best_candidates = <<>>
                        ELSE \E k \in 1..Len(cands) :
                                /\ Top(k)
                                /\ \A m \in 1..(k - 1) : ~Top(m)
                                /\ entry.best_candidates = cands[k]

====
